---- MODULE Spec2Model ----
(***************************************************************************)
(* Control plane of the delayprobe plugin (delayprobe.c): the CLI and      *)
(* binary-API handlers that configure the timers, enable and disable the   *)
(* feature per interface, register the IPFIX template with the exporter    *)
(* and allocate the per-worker flow state.                                 *)
(*                                                                         *)
(* C functions are operators over a record w ("world") that holds the      *)
(* plugin's main structure fm and the collaborators a handler touches      *)
(* (exporter, feature arcs, timer process node, clock) plus the value rv   *)
(* it returns.  A handler is the composition of the operators it calls;    *)
(* the actions at the end draw the arguments and commit the result.        *)
(***************************************************************************)
EXTENDS Integers, Sequences, FiniteSets, TLC

VARIABLES fm, exporter, feature_arcs, timer_node, now,
          control, walker_pending, rewrite

vars == <<fm, exporter, feature_arcs, timer_node, now,
          control, walker_pending, rewrite>>

----------------------------------------------------------------------------
(* Bounds of the model *)

\* sw_if_index 0 .. MaxSwIf are the existing interfaces; MaxSwIf + 1 is an
\* index no interface has.
MaxSwIf == 1
\* vlib_thread_main.n_threads: worker threads besides the main thread
NThreads == 1
\* explicit timer values 0 .. MaxTimer (plus ~0 for "default", see TimerInputs)
MaxTimer == 2
\* the clock runs from 0 to MaxNow
MaxNow == 1
\* how far template_per_flow may be driven below zero (u16 wrap-around)
MaxUnderflow == 1
\* the exporter hands out template ids 256 + (0 .. TemplateNoModulus-1)
TemplateNoModulus == 1
\* log2 of the pool and hash size per worker, scaled down
delayprobe_LOG2_HASHSIZE == 2
\* flows per interface the packet path sees
MaxFlows == 1
\* packets a flow entry counts between two exports
MaxPackets == 2
\* the value of the top bit of a timer handle (bit 31, scaled down); pool
\* indices lie below it
HandleTopBit == 8

----------------------------------------------------------------------------
(* Program constants *)

U8_UNSET == 255
U16_MOD == 65536
\* (u32) ~0, the largest u32, represented by the largest 32-bit signed
\* integer; every other u32 value of the model lies far below it.
U32_MAX == 2147483647

FLOW_VARIANT_SRH_IP6 == 0
FLOW_N_VARIANTS == 1
FLOW_RECORD_L3 == 2
FLOW_DIRECTION_RX == 0
FLOW_DIRECTION_TX == 1
FLOW_DIRECTION_BOTH == 2
DELAYPROBE_DIRECTION_RX == 0
DELAYPROBE_DIRECTION_TX == 1
DELAYPROBE_DIRECTION_BOTH == 2
delayprobe_TIMER_ACTIVE == 15
delayprobe_TIMER_PASSIVE == 120
\* the scheduler's sleep durations 0.1 s and 1e-4 s, in units of 1e-4 s
SLEEP_LONG == 1000
SLEEP_SHORT == 1

Variants == 0 .. (FLOW_N_VARIANTS - 1)
Records == {0, FLOW_RECORD_L3}
Interfaces == 0 .. MaxSwIf
Arcs == {"ip6-unicast", "ip6-multicast", "ip6-output"}

\* what a control client can send
SwIfInputs == 0 .. (MaxSwIf + 1)
\* the same without the last interface
SwIfFewInputs == (0 .. (MaxSwIf - 1)) \cup {MaxSwIf + 1}
WhichInputs == {FLOW_VARIANT_SRH_IP6, U8_UNSET}
DirectionInputs == {DELAYPROBE_DIRECTION_RX, DELAYPROBE_DIRECTION_TX,
                    DELAYPROBE_DIRECTION_BOTH, 3}
CliDirections == {FLOW_DIRECTION_RX, FLOW_DIRECTION_TX, FLOW_DIRECTION_BOTH}
TimerInputs == (0 .. MaxTimer) \cup {U32_MAX}
DefaultOrOff == {0, U32_MAX}

\* what the environment decides during an enable/disable of variant which:
\* whether the exporter can add a report (asked only for a variant that has
\* a template), and the value read back from an out-of-range
\* template_per_flow slot (0, 1, or something larger)
Oracles(which) ==
  [stream_ok : IF which = FLOW_VARIANT_SRH_IP6 THEN BOOLEAN ELSE {TRUE},
   oob_read : IF which \in Variants THEN {0} ELSE 0 .. 2]

----------------------------------------------------------------------------
(* Vectors: a C vector v is a sequence, v[i] in C is At(v, i) *)

At(v, i) == v[i + 1]

Put(v, i, x) == [v EXCEPT ![i + 1] = x]

VecValidateInitEmpty(v, i, init) ==
  IF Len(v) > i THEN v
  ELSE v \o [k \in 1 .. (i + 1 - Len(v)) |-> init]

VecNegSearch(v, e) ==
  IF \E k \in 1 .. Len(v) : v[k] # e
  THEN (CHOOSE k \in 1 .. Len(v) :
          v[k] # e /\ \A j \in 1 .. (k - 1) : v[j] = e) - 1
  ELSE -1

VecValidate(v, i, zero) == VecValidateInitEmpty(v, i, zero)

VecResize(v, n, fill) == v \o [k \in 1 .. n |-> fill]

Pow2(n) == 2 ^ n

----------------------------------------------------------------------------
(* Per-worker structures *)

NullPool == [capacity |-> 0, elts |-> {}]
\* a vector of handles: a null pointer until the first vec_add1 allocates it
NullVec == [allocated |-> FALSE, elts |-> <<>>]
VecAdd1(v, x) == [allocated |-> TRUE, elts |-> Append(v.elts, x)]
NullWheel == [initialised |-> FALSE, timer_interval |-> 0,
              max_expirations |-> 0, timers |-> {}]

PoolAlloc(p, n) == [p EXCEPT !.capacity = @ + n]

TwTimerWheelInit(timer_interval, max_expirations) ==
  [initialised |-> TRUE, timer_interval |-> timer_interval,
   max_expirations |-> max_expirations, timers |-> {}]

\* the first n entries of a hash vector set to the no-entry value ~0
HashClear(h, n) == [k \in 1 .. Len(h) |-> IF k <= n THEN U32_MAX ELSE h[k]]

----------------------------------------------------------------------------
(* The exporter's report registry: vnet_flow_report_add_del.  It lives in   *)
(* vnet/ipfix-export, outside the plugin; a report is keyed by its opaque  *)
(* value (the record flags) and carries the template id the exporter       *)
(* assigned, 0 meaning "no such report".                                   *)

ExporterInit == [reports |-> [r \in Records |-> 0], next_template_no |-> 0]

\* returns the exporter, the return value and the template id out-parameter
vnet_flow_report_add_del(e, opaque, is_add, template_id, stream_ok) ==
  IF is_add
  THEN IF ~stream_ok
       THEN [exporter |-> e, rv |-> "VNET_API_ERROR_INVALID_VALUE",
             template_id |-> template_id]
       ELSE IF e.reports[opaque] # 0
       THEN [exporter |-> e, rv |-> "VNET_API_ERROR_VALUE_EXIST",
             template_id |-> e.reports[opaque]]
       ELSE [exporter |->
               [reports |-> [e.reports EXCEPT
                               ![opaque] = 256 + e.next_template_no],
                next_template_no |->
                  (e.next_template_no + 1) % TemplateNoModulus],
             rv |-> "0",
             template_id |-> 256 + e.next_template_no]
  ELSE IF e.reports[opaque] # 0
       THEN [exporter |-> [e EXCEPT !.reports[opaque] = 0], rv |-> "0",
             template_id |-> template_id]
       ELSE [exporter |-> e, rv |-> "VNET_API_ERROR_NO_SUCH_ENTRY",
             template_id |-> template_id]

delayprobe_template_add_del(e, flags, is_add, template_id, stream_ok) ==
  vnet_flow_report_add_del(e, flags, is_add, template_id, stream_ok)

\* vnet_feature_enable_disable: the feature is on or off on an arc of an
\* interface
vnet_feature_enable_disable(arcs, arc, sw_if_index, enable) ==
  IF enable THEN arcs \cup {<<arc, sw_if_index>>}
  ELSE arcs \ {<<arc, sw_if_index>>}

----------------------------------------------------------------------------
(* delayprobe_init *)

FmInit ==
  [flow_per_interface |-> <<>>,
   direction_per_interface |-> <<>>,
   template_per_flow |-> [v \in Variants |-> 0],
   template_reports |-> [r \in Records |-> 0],
   template_size |-> [r \in Records |-> 0],
   context_flags |-> [v \in Variants |-> 0],
   record |-> 0,
   active_timer |-> delayprobe_TIMER_ACTIVE,
   passive_timer |-> delayprobe_TIMER_PASSIVE,
   initialized |-> FALSE,
   disabled |-> FALSE,
   ht_log2len |-> 0,
   pool_per_worker |-> <<>>,
   hash_per_worker |-> <<>>,
   timers_per_worker |-> <<>>,
   expired_passive_per_worker |-> <<>>,
   stateless_entry |-> <<>>,
   clobbered |-> FALSE]

----------------------------------------------------------------------------
(* delayprobe_create_state_tables *)

RECURSIVE CreateWorkers_short_clear(_, _, _)
\* the loop with the bucket loop of line 295 stopping one bucket early
CreateWorkers_short_clear(m, i, num_threads) ==
  IF i >= num_threads THEN m
  ELSE CreateWorkers_short_clear(
         [m EXCEPT
            !.pool_per_worker[i + 1] = PoolAlloc(@, Pow2(m.ht_log2len)),
            !.hash_per_worker[i + 1] =
               HashClear(VecResize(@, Pow2(m.ht_log2len), 0),
                         Pow2(m.ht_log2len) - 1),
            !.timers_per_worker[i + 1] = TwTimerWheelInit(1, 1024)],
         i + 1, num_threads)

RECURSIVE CreateWorkers(_, _, _)
\* the loop of lines 290-302 over worker i .. num_threads-1
CreateWorkers(m, i, num_threads) ==
  IF i >= num_threads THEN m
  ELSE CreateWorkers(
         [m EXCEPT
            !.pool_per_worker[i + 1] = PoolAlloc(@, Pow2(m.ht_log2len)),
            !.hash_per_worker[i + 1] =
               HashClear(VecResize(@, Pow2(m.ht_log2len), 0),
                         Pow2(m.ht_log2len)),
            !.timers_per_worker[i + 1] = TwTimerWheelInit(1, 1024)],
         i + 1, num_threads)

\* the stateless branch without the loop that stamps last_exported
delayprobe_create_state_tables_unstamped(m0, active_timer, time_now) ==
  LET num_threads == 1 + NThreads
      m == [m0 EXCEPT !.ht_log2len = delayprobe_LOG2_HASHSIZE]
  IN IF active_timer # 0
     THEN [CreateWorkers(
             [m EXCEPT
                !.timers_per_worker = VecValidate(@, num_threads - 1, NullWheel),
                !.expired_passive_per_worker = VecValidate(@, num_threads - 1, NullVec),
                !.hash_per_worker = VecValidate(@, num_threads - 1, <<>>),
                !.pool_per_worker = VecValidate(@, num_threads - 1, NullPool)],
             0, num_threads)
           EXCEPT !.disabled = TRUE, !.initialized = TRUE]
     ELSE [m EXCEPT
             !.stateless_entry =
                VecValidate(@, num_threads - 1, [last_exported |-> 0]),
             !.disabled = FALSE,
             !.initialized = TRUE]

delayprobe_create_state_tables(m0, active_timer, time_now) ==
  LET num_threads == 1 + NThreads
      m == [m0 EXCEPT !.ht_log2len = delayprobe_LOG2_HASHSIZE]
  IN IF active_timer # 0
     THEN [CreateWorkers(
             [m EXCEPT
                !.timers_per_worker = VecValidate(@, num_threads - 1, NullWheel),
                !.expired_passive_per_worker = VecValidate(@, num_threads - 1, NullVec),
                !.hash_per_worker = VecValidate(@, num_threads - 1, <<>>),
                !.pool_per_worker = VecValidate(@, num_threads - 1, NullPool)],
             0, num_threads)
           EXCEPT !.disabled = TRUE, !.initialized = TRUE]
     ELSE [m EXCEPT
             !.stateless_entry =
                [k \in 1 .. Len(VecValidate(@, num_threads - 1,
                                            [last_exported |-> 0])) |->
                   IF k <= num_threads
                   THEN [last_exported |-> time_now]
                   ELSE VecValidate(@, num_threads - 1,
                                    [last_exported |-> 0])[k]],
             !.disabled = FALSE,
             !.initialized = TRUE]

----------------------------------------------------------------------------
(* validate_feature_on_interface: returns fm and -1 / 0 / 1 *)

\* the vectors are extended but the interface's entry is not looked at
validate_feature_on_interface_unchecked(m0, sw_if_index, which) ==
  [fm |-> [m0 EXCEPT
             !.flow_per_interface =
                VecValidateInitEmpty(@, sw_if_index, U8_UNSET),
             !.direction_per_interface =
                VecValidateInitEmpty(@, sw_if_index, U8_UNSET)],
   rv |-> -1]

validate_feature_on_interface(m0, sw_if_index, which) ==
  LET m == [m0 EXCEPT
              !.flow_per_interface =
                 VecValidateInitEmpty(@, sw_if_index, U8_UNSET),
              !.direction_per_interface =
                 VecValidateInitEmpty(@, sw_if_index, U8_UNSET)]
  IN [fm |-> m,
      rv |-> IF At(m.flow_per_interface, sw_if_index) = U8_UNSET THEN -1
             ELSE IF At(m.flow_per_interface, sw_if_index) # which THEN 0
             ELSE 1]


----------------------------------------------------------------------------
(* delayprobe_interface_add_del_feature.  o is the environment's part:     *)
(* o.stream_ok, whether the exporter can add a report, and o.oob_read, the *)
(* value read back from template_per_flow[which] when which is no index of *)
(* the array (the write then lands elsewhere in fm: clobbered).            *)

FeatureArcs(arcs, sw_if_index, which, direction, is_add) ==
  LET rx == IF (direction = FLOW_DIRECTION_RX \/ direction = FLOW_DIRECTION_BOTH)
               /\ which = FLOW_VARIANT_SRH_IP6
            THEN vnet_feature_enable_disable(
                   vnet_feature_enable_disable(arcs, "ip6-unicast",
                                               sw_if_index, is_add),
                   "ip6-multicast", sw_if_index, is_add)
            ELSE arcs
  IN IF (direction = FLOW_DIRECTION_TX \/ direction = FLOW_DIRECTION_BOTH)
        /\ which = FLOW_VARIANT_SRH_IP6
     THEN vnet_feature_enable_disable(rx, "ip6-output", sw_if_index, is_add)
     ELSE rx

\* the allocation without the test of the initialized flag
StatefulFlowCollection_ungated(w, m, is_add) ==
  IF is_add
  THEN [w EXCEPT
          !.fm = delayprobe_create_state_tables(m, m.active_timer, w.now),
          !.timer_node.events =
             IF m.active_timer # 0 THEN Append(@, 1) ELSE @]
  ELSE [w EXCEPT !.fm = m]

\* a disable that also empties the pools and the expired-handle lists
StatefulFlowCollection_purging(w, m, is_add) ==
  IF is_add /\ ~m.initialized
  THEN [w EXCEPT
          !.fm = delayprobe_create_state_tables(m, m.active_timer, w.now),
          !.timer_node.events =
             IF m.active_timer # 0 THEN Append(@, 1) ELSE @]
  ELSE IF ~is_add
  THEN [w EXCEPT
          !.fm = [m EXCEPT
                    !.pool_per_worker =
                       [k \in 1 .. Len(@) |-> [@[k] EXCEPT !.elts = {}]],
                    !.expired_passive_per_worker =
                       [k \in 1 .. Len(@) |-> NullVec]]]
  ELSE [w EXCEPT !.fm = m]

\* lines 398-404: one-time allocation and the kickoff event for timer_process
StatefulFlowCollection(w, m, is_add) ==
  IF is_add /\ ~m.initialized
  THEN [w EXCEPT
          !.fm = delayprobe_create_state_tables(m, m.active_timer, w.now),
          !.timer_node.events =
             IF m.active_timer # 0 THEN Append(@, 1) ELSE @]
  ELSE [w EXCEPT !.fm = m]

\* the template is added on every enable that finds the variant live
TemplateCallNeeded_every_enable(is_add, count) ==
  (is_add /\ count >= 1) \/ (~is_add /\ count = 0)

\* lines 357-358: the first enable and the last disable of a variant
TemplateCallNeeded(is_add, count) ==
  (is_add /\ count = 1) \/ (~is_add /\ count = 0)

\* w.exporter_calls lists the calls to the exporter a handler has made
ExporterCalls(log, calls, is_add) ==
  IF calls THEN Append(log, IF is_add THEN "add" ELSE "del") ELSE log

\* lines 346-396: everything up to the switching of the arcs
InterfaceAddDelFeatureArcs(w, sw_if_index, which, direction, is_add, o) ==
  LET flags == w.fm.record
      inrange == which \in Variants
      m1 == [w.fm EXCEPT
               !.flow_per_interface =
                  Put(@, sw_if_index, IF is_add THEN which ELSE U8_UNSET),
               !.direction_per_interface =
                  Put(@, sw_if_index, IF is_add THEN direction ELSE U8_UNSET)]
      m2 == IF inrange
            THEN [m1 EXCEPT !.template_per_flow[which] =
                    (@ + (IF is_add THEN 1 ELSE U16_MOD - 1)) % U16_MOD]
            ELSE [m1 EXCEPT !.clobbered = TRUE]
      count == IF inrange THEN m2.template_per_flow[which] ELSE o.oob_read
      template_id0 == IF is_add /\ count > 1 THEN m2.template_reports[flags]
                      ELSE 0
      calls == TemplateCallNeeded(is_add, count)
               /\ which = FLOW_VARIANT_SRH_IP6
      t == IF calls
           THEN delayprobe_template_add_del(w.exporter, flags, is_add,
                                            template_id0, o.stream_ok)
           ELSE [exporter |-> w.exporter, rv |-> "0",
                 template_id |-> template_id0]
  IN IF t.rv # "0" /\ t.rv # "VNET_API_ERROR_VALUE_EXIST"
     THEN [w EXCEPT !.fm = m2, !.exporter = t.exporter, !.rv = "-1",
                    !.exporter_calls = ExporterCalls(@, calls, is_add)]
     ELSE
       LET m3 == IF which # U8_UNSET
                 THEN [(IF inrange
                        THEN [m2 EXCEPT !.context_flags[which] = m2.record]
                        ELSE [m2 EXCEPT !.clobbered = TRUE])
                       EXCEPT !.template_reports[flags] =
                                IF is_add THEN t.template_id ELSE 0]
                 ELSE m2
           w3 == [w EXCEPT
                    !.exporter = t.exporter,
                    !.exporter_calls = ExporterCalls(@, calls, is_add),
                    !.feature_arcs = FeatureArcs(@, sw_if_index, which,
                                                 direction, is_add),
                    !.rv = "0"]
       IN [w3 EXCEPT !.fm = m3]

delayprobe_interface_add_del_feature(w, sw_if_index, which, direction, is_add, o) ==
  LET p == InterfaceAddDelFeatureArcs(w, sw_if_index, which, direction, is_add, o)
  IN IF p.rv = "-1" THEN p ELSE StatefulFlowCollection(p, p.fm, is_add)

----------------------------------------------------------------------------
(* Enable / disable entry points *)

\* the handler without the test of fm->record
vl_api_delayprobe_tx_interface_add_del_t_handler_unconfigured(w, sw_if_index, which, is_add, o) ==
  IF sw_if_index \notin Interfaces
  THEN [w EXCEPT !.rv = "VNET_API_ERROR_INVALID_SW_IF_INDEX"]
  ELSE LET v == validate_feature_on_interface(w.fm, sw_if_index, which)
       IN IF (v.rv = 1 /\ is_add) \/ v.rv = 0
          THEN [w EXCEPT !.fm = v.fm,
                         !.rv = "VNET_API_ERROR_CANNOT_ENABLE_DISABLE_FEATURE"]
          ELSE delayprobe_interface_add_del_feature(
                 [w EXCEPT !.fm = v.fm], sw_if_index, which,
                 FLOW_DIRECTION_TX, is_add, o)

vl_api_delayprobe_tx_interface_add_del_t_handler(w, sw_if_index, which, is_add, o) ==
  IF sw_if_index \notin Interfaces
  THEN [w EXCEPT !.rv = "VNET_API_ERROR_INVALID_SW_IF_INDEX"]
  ELSE IF w.fm.record = 0
  THEN [w EXCEPT !.rv = "VNET_API_ERROR_CANNOT_ENABLE_DISABLE_FEATURE"]
  ELSE LET v == validate_feature_on_interface(w.fm, sw_if_index, which)
       IN IF (v.rv = 1 /\ is_add) \/ v.rv = 0
          THEN [w EXCEPT !.fm = v.fm,
                         !.rv = "VNET_API_ERROR_CANNOT_ENABLE_DISABLE_FEATURE"]
          ELSE delayprobe_interface_add_del_feature(
                 [w EXCEPT !.fm = v.fm], sw_if_index, which,
                 FLOW_DIRECTION_TX, is_add, o)

ApiDirection(d) ==
  IF d = DELAYPROBE_DIRECTION_RX THEN FLOW_DIRECTION_RX
  ELSE IF d = DELAYPROBE_DIRECTION_TX THEN FLOW_DIRECTION_TX
  ELSE IF d = DELAYPROBE_DIRECTION_BOTH THEN FLOW_DIRECTION_BOTH
  ELSE U8_UNSET

ValidDirection(d) ==
  d \in {DELAYPROBE_DIRECTION_RX, DELAYPROBE_DIRECTION_TX,
         DELAYPROBE_DIRECTION_BOTH}

vl_api_delayprobe_interface_add_del_t_handler(w, sw_if_index, mp_direction, is_add, o) ==
  LET which == FLOW_VARIANT_SRH_IP6 IN
  IF sw_if_index \notin Interfaces
  THEN [w EXCEPT !.rv = "VNET_API_ERROR_INVALID_SW_IF_INDEX"]
  ELSE IF ~ValidDirection(mp_direction)
  THEN [w EXCEPT !.rv = "VNET_API_ERROR_INVALID_VALUE"]
  ELSE IF w.fm.record = 0
  THEN [w EXCEPT !.rv = "VNET_API_ERROR_CANNOT_ENABLE_DISABLE_FEATURE"]
  ELSE LET v == validate_feature_on_interface(w.fm, sw_if_index, which)
       IN IF v.rv = 1 /\ is_add
          THEN [w EXCEPT !.fm = v.fm,
                         !.rv = "VNET_API_ERROR_ENTRY_ALREADY_EXISTS"]
          ELSE IF v.rv = 0
          THEN [w EXCEPT !.fm = v.fm,
                         !.rv = "VNET_API_ERROR_ENTRY_ALREADY_EXISTS"]
          ELSE IF v.rv = -1 /\ ~is_add
          THEN [w EXCEPT !.fm = v.fm, !.rv = "VNET_API_ERROR_NO_SUCH_ENTRY"]
          ELSE delayprobe_interface_add_del_feature(
                 [w EXCEPT !.fm = v.fm], sw_if_index, which,
                 ApiDirection(mp_direction), is_add, o)

\* the CLI returns a clib_error_t *: "0" for none
delayprobe_interface_add_del_feature_command_fn(w, sw_if_index, direction, is_add, o) ==
  LET which == FLOW_VARIANT_SRH_IP6 IN
  IF w.fm.record = 0
  THEN [w EXCEPT !.rv = "clib_error"]
  ELSE IF sw_if_index \notin Interfaces
  THEN [w EXCEPT !.rv = "clib_error"]
  ELSE LET v == validate_feature_on_interface(w.fm, sw_if_index, which)
       IN IF (v.rv = 1 /\ is_add) \/ v.rv = 0 \/ (v.rv = -1 /\ ~is_add)
          THEN [w EXCEPT !.fm = v.fm, !.rv = "clib_error"]
          ELSE LET r == delayprobe_interface_add_del_feature(
                          [w EXCEPT !.fm = v.fm], sw_if_index, which,
                          direction, is_add, o)
               IN [r EXCEPT !.rv = IF r.rv = "0" THEN "0" ELSE "clib_error"]

----------------------------------------------------------------------------
(* Timer parameters *)

\* delayprobe_params without the check for enabled interfaces
delayprobe_params_unguarded(w, active_timer, passive_timer) ==
  [w EXCEPT
     !.fm.record = FLOW_RECORD_L3,
     !.fm.active_timer = IF active_timer = U32_MAX
                         THEN delayprobe_TIMER_ACTIVE ELSE active_timer,
     !.fm.passive_timer = IF passive_timer = U32_MAX
                          THEN delayprobe_TIMER_PASSIVE ELSE passive_timer,
     !.rv = "0"]

delayprobe_params(w, active_timer, passive_timer) ==
  IF VecNegSearch(w.fm.flow_per_interface, U8_UNSET) # -1
  THEN [w EXCEPT !.rv = "VNET_API_ERROR_UNSUPPORTED"]
  ELSE [w EXCEPT
          !.fm.record = FLOW_RECORD_L3,
          !.fm.active_timer = IF active_timer = U32_MAX
                              THEN delayprobe_TIMER_ACTIVE ELSE active_timer,
          !.fm.passive_timer = IF passive_timer = U32_MAX
                               THEN delayprobe_TIMER_PASSIVE ELSE passive_timer,
          !.rv = "0"]

vl_api_delayprobe_params_t_handler(w, active_timer, passive_timer) ==
  delayprobe_params(w, active_timer, passive_timer)

vl_api_delayprobe_set_params_t_handler(w, active_timer, passive_timer) ==
  IF passive_timer > 0 /\ active_timer > passive_timer
  THEN [w EXCEPT !.rv = "VNET_API_ERROR_INVALID_VALUE"]
  ELSE delayprobe_params(w, active_timer, passive_timer)

delayprobe_params_command_fn(w, active_timer, passive_timer) ==
  IF passive_timer > 0 /\ active_timer > passive_timer
  THEN [w EXCEPT !.rv = "clib_error"]
  ELSE LET r == delayprobe_params(w, active_timer, passive_timer)
       IN [r EXCEPT !.rv = IF r.rv = "0" THEN "0" ELSE "clib_error"]

----------------------------------------------------------------------------
(* The state machine *)

World == [fm |-> fm, exporter |-> exporter, feature_arcs |-> feature_arcs,
          timer_node |-> timer_node, now |-> now, rv |-> "0",
          exporter_calls |-> <<>>]

\* template_per_flow stays within the part of the u16 range the model covers
InBounds(m) ==
  \A v \in Variants :
     m.template_per_flow[v] <= MaxSwIf + 1
     \/ m.template_per_flow[v] >= U16_MOD - MaxUnderflow

\* a handler runs on the main thread from its first line to its return
Commit(r) ==
  /\ control = "idle"
  /\ InBounds(r.fm)
  /\ fm' = r.fm
  /\ exporter' = r.exporter
  /\ feature_arcs' = r.feature_arcs
  /\ timer_node' = r.timer_node
  /\ UNCHANGED <<now, control, walker_pending, rewrite>>

Init ==
  /\ fm = FmInit
  /\ exporter = ExporterInit
  /\ feature_arcs = {}
  /\ timer_node = [events |-> <<>>, pc |-> "wait_for_event",
                   sleep_duration |-> SLEEP_LONG]
  /\ now = 0
  /\ control = "idle"
  /\ walker_pending = {}
  /\ rewrite = <<>>

TxApiAddDel(sw_if_index, which, is_add, o) ==
  Commit(vl_api_delayprobe_tx_interface_add_del_t_handler(
           World, sw_if_index, which, is_add, o))

ApiAddDel(sw_if_index, mp_direction, is_add, o) ==
  Commit(vl_api_delayprobe_interface_add_del_t_handler(
           World, sw_if_index, mp_direction, is_add, o))

CliAddDel(sw_if_index, direction, is_add, o) ==
  Commit(delayprobe_interface_add_del_feature_command_fn(
           World, sw_if_index, direction, is_add, o))

ApiParams(active_timer, passive_timer) ==
  Commit(vl_api_delayprobe_params_t_handler(World, active_timer,
                                            passive_timer))

ApiSetParams(active_timer, passive_timer) ==
  Commit(vl_api_delayprobe_set_params_t_handler(World, active_timer,
                                                passive_timer))

CliParams(active_timer, passive_timer) ==
  Commit(delayprobe_params_command_fn(World, active_timer, passive_timer))

\* vlib_time_now advances
Tick ==
  /\ now < MaxNow
  /\ now' = now + 1
  /\ UNCHANGED <<fm, exporter, feature_arcs, timer_node,
                 control, walker_pending, rewrite>>

\* Enable/disable through every entry point with every argument, on all
\* interfaces but the last; active_timer is switched between off (0) and its
\* default (~0).
Next ==
  \/ \E i \in SwIfFewInputs, wh \in WhichInputs, a \in BOOLEAN :
        \E o \in Oracles(wh) : TxApiAddDel(i, wh, a, o)
  \/ \E i \in SwIfFewInputs, d \in DirectionInputs, a \in BOOLEAN :
        \E o \in Oracles(FLOW_VARIANT_SRH_IP6) : ApiAddDel(i, d, a, o)
  \/ \E i \in SwIfFewInputs, d \in CliDirections, a \in BOOLEAN :
        \E o \in Oracles(FLOW_VARIANT_SRH_IP6) : CliAddDel(i, d, a, o)
  \/ \E at \in DefaultOrOff : ApiParams(at, U32_MAX)
  \/ \E at \in DefaultOrOff : ApiSetParams(at, U32_MAX)
  \/ \E at \in DefaultOrOff : CliParams(at, U32_MAX)

Spec == Init /\ [][Next]_vars

\* The timers set to every value through every configuration entry point,
\* between enables and disables of the interfaces in one direction.
NextParams ==
  \/ \E at \in TimerInputs, pt \in TimerInputs : ApiParams(at, pt)
  \/ \E at \in TimerInputs, pt \in TimerInputs : ApiSetParams(at, pt)
  \/ \E at \in TimerInputs, pt \in TimerInputs : CliParams(at, pt)
  \/ \E i \in SwIfInputs, a \in BOOLEAN :
        \E o \in Oracles(FLOW_VARIANT_SRH_IP6) :
           CliAddDel(i, FLOW_DIRECTION_TX, a, o)
  \/ \E i \in SwIfInputs, a \in BOOLEAN :
        \E o \in Oracles(FLOW_VARIANT_SRH_IP6) :
           TxApiAddDel(i, FLOW_VARIANT_SRH_IP6, a, o)

SpecParams == Init /\ [][NextParams]_vars

\* Enable/disable through the entry points that validate the request (CLI
\* and the interface_add_del handler), with an exporter that accepts every
\* report: every call that changes the state is a successful one.
NextOk ==
  \/ \E i \in SwIfInputs, d \in DirectionInputs, a \in BOOLEAN :
        ApiAddDel(i, d, a, [stream_ok |-> TRUE, oob_read |-> 0])
  \/ \E i \in SwIfInputs, d \in CliDirections, a \in BOOLEAN :
        CliAddDel(i, d, a, [stream_ok |-> TRUE, oob_read |-> 0])
  \/ \E at \in DefaultOrOff : CliParams(at, U32_MAX)
  \/ Tick

SpecOk == Init /\ [][NextOk]_vars

----------------------------------------------------------------------------
(* What the claims speak about *)

\* the variant / direction recorded for interface i; an index the vectors do
\* not reach yet reads as unset, which is what validate_feature_on_interface
\* fills in
FlowOf(m, i) ==
  IF i < Len(m.flow_per_interface) THEN At(m.flow_per_interface, i)
  ELSE U8_UNSET

DirectionOf(m, i) ==
  IF i < Len(m.direction_per_interface) THEN At(m.direction_per_interface, i)
  ELSE U8_UNSET

\* the state an enable/disable request is about
InterfaceState(m) ==
  [flow |-> [i \in Interfaces |-> FlowOf(m, i)],
   direction |-> [i \in Interfaces |-> DirectionOf(m, i)],
   live |-> m.template_per_flow,
   template_id |-> m.template_reports]

Params(m) == <<m.active_timer, m.passive_timer, m.record>>

SomeEnabled == \E i \in Interfaces : FlowOf(fm, i) # U8_UNSET

\* the three ways to configure the timers
ConfigureResults(active_timer, passive_timer) ==
  {delayprobe_params_command_fn(World, active_timer, passive_timer),
   vl_api_delayprobe_set_params_t_handler(World, active_timer, passive_timer),
   vl_api_delayprobe_params_t_handler(World, active_timer, passive_timer)}

----------------------------------------------------------------------------
\* C1: while at least one interface has the feature enabled, configure
\* through any entry point and with any timer values returns an error and
\* leaves active_timer, passive_timer and the record flags as they were.
C1_ConfigureWhileEnabled ==
  SomeEnabled =>
    \A at \in TimerInputs, pt \in TimerInputs :
      \A r \in ConfigureResults(at, pt) :
        r.rv # "0" /\ Params(r.fm) = Params(fm)

\* an interface is enabled and a configure with acceptable timers (1, 2) is
\* turned down for that reason
C1_Witness ==
  /\ SomeEnabled
  /\ vl_api_delayprobe_set_params_t_handler(World, 1, 2).rv
       = "VNET_API_ERROR_UNSUPPORTED"
  /\ Params(fm) # <<1, 2, FLOW_RECORD_L3>>

----------------------------------------------------------------------------
\* the results of an enable (is_add) or disable of variant which on
\* interface i through every entry point, in every direction the entry point
\* takes; the CLI and the interface_add_del handler know one variant only
TxApiResults(i, which, is_add) ==
  {vl_api_delayprobe_tx_interface_add_del_t_handler(World, i, which, is_add, o) :
     o \in Oracles(which)}

ApiResults(i, is_add) ==
  {vl_api_delayprobe_interface_add_del_t_handler(World, i, d[1], is_add, d[2]) :
     d \in DirectionInputs \X Oracles(FLOW_VARIANT_SRH_IP6)}

CliResults(i, is_add) ==
  {delayprobe_interface_add_del_feature_command_fn(World, i, d[1], is_add, d[2]) :
     d \in CliDirections \X Oracles(FLOW_VARIANT_SRH_IP6)}

EnableDisableResults(i, which, is_add) ==
  TxApiResults(i, which, is_add)
    \cup (IF which = FLOW_VARIANT_SRH_IP6
          THEN ApiResults(i, is_add) \cup CliResults(i, is_add)
          ELSE {})

\* C2: an enable of the variant an interface already has is turned down by
\* every entry point, and flow_per_interface, direction_per_interface, the
\* live-interface counts and the template ids stay as they are.
C2_EnableTwiceRejected ==
  \A i \in Interfaces, which \in Variants :
    FlowOf(fm, i) = which =>
      \A r \in EnableDisableResults(i, which, TRUE) :
        /\ r.rv # "0"
        /\ InterfaceState(r.fm) = InterfaceState(fm)
        /\ r.fm.flow_per_interface = fm.flow_per_interface
        /\ r.fm.direction_per_interface = fm.direction_per_interface

\* interface 0 has the variant enabled and the three entry points turn a
\* second enable down
C2_Witness ==
  /\ FlowOf(fm, 0) = FLOW_VARIANT_SRH_IP6
  /\ \A r \in TxApiResults(0, FLOW_VARIANT_SRH_IP6, TRUE) :
        r.rv = "VNET_API_ERROR_CANNOT_ENABLE_DISABLE_FEATURE"
  /\ \A r \in CliResults(0, TRUE) : r.rv = "clib_error"
  /\ \E r \in ApiResults(0, TRUE) :
        r.rv = "VNET_API_ERROR_ENTRY_ALREADY_EXISTS"

\* C3: a disable of an interface that has no variant enabled is turned down
\* by every entry point, the tx_interface_add_del handler included, and the
\* interface state stays as it is.
C3_DisableUnsetRejected ==
  \A i \in Interfaces :
    FlowOf(fm, i) = U8_UNSET =>
      \A r \in EnableDisableResults(i, FLOW_VARIANT_SRH_IP6, FALSE) :
        r.rv # "0" /\ InterfaceState(r.fm) = InterfaceState(fm)

\* C4: whenever delayprobe_interface_add_del_feature returns non-zero (the
\* API handlers pass its -1 on), the interface state has the values it had
\* before the call.
C4_AllOrNothing ==
  \A i \in Interfaces, which \in WhichInputs, is_add \in BOOLEAN :
    \A r \in TxApiResults(i, which, is_add) \cup ApiResults(i, is_add) :
      r.rv = "-1" => InterfaceState(r.fm) = InterfaceState(fm)

\* C5: the template id of the variant is set by the enable that takes the
\* live-interface count from 0 to 1, stays as it is while the count stays at
\* least 1, and goes back to 0 only when the count does.
C5_TemplateIdLifecycle ==
  [][LET c == fm.template_per_flow[FLOW_VARIANT_SRH_IP6]
         c2 == fm'.template_per_flow[FLOW_VARIANT_SRH_IP6]
         t == fm.template_reports[FLOW_RECORD_L3]
         t2 == fm'.template_reports[FLOW_RECORD_L3]
     IN /\ (c = 0 /\ c2 = 1) => t2 # 0
        /\ (c >= 1 /\ c2 >= 1) => t2 = t
        /\ (t # 0 /\ t2 = 0) => c2 = 0]_vars

Registered(e) == e.reports[FLOW_RECORD_L3] # 0

Allocation(m) ==
  <<[k \in 1 .. Len(m.pool_per_worker) |-> m.pool_per_worker[k].capacity],
    [k \in 1 .. Len(m.hash_per_worker) |-> Len(m.hash_per_worker[k])],
    [k \in 1 .. Len(m.timers_per_worker) |->
       m.timers_per_worker[k].initialised],
    Len(m.expired_passive_per_worker),
    Len(m.stateless_entry)>>

NothingAllocated == <<<<>>, <<>>, <<>>, 0, 0>>

\* this step is an enable that returns 0
EnableReturnsZero ==
  \E i \in Interfaces, which \in WhichInputs :
    \E r \in EnableDisableResults(i, which, TRUE) :
      r.rv = "0" /\ fm' = r.fm

\* C7: the per-worker state is allocated at most once: the initialized flag
\* is set by an enable that returns 0, the first such enable sets it, and
\* once it is set no configure, enable or disable resets it or allocates
\* again.
C7_AllocateOnce ==
  [][/\ fm.initialized =>
          fm'.initialized /\ Allocation(fm') = Allocation(fm)
     /\ (~fm.initialized /\ fm'.initialized) => EnableReturnsZero
     /\ (~fm.initialized /\ EnableReturnsZero) => fm'.initialized
     /\ ~fm.initialized => Allocation(fm) = NothingAllocated]_vars

\* the state was allocated with active_timer non-zero; since then the
\* interface was disabled, active_timer set to 0 and the interface enabled
\* again
C7_Witness ==
  /\ fm.initialized
  /\ Len(fm.pool_per_worker) = 1 + NThreads
  /\ fm.stateless_entry = <<>>
  /\ fm.active_timer = 0
  /\ FlowOf(fm, 0) = FLOW_VARIANT_SRH_IP6

\* C8: the step that allocates, with active_timer 0, allocates no pool, hash
\* table or wheel and gives each of the 1 + n_threads workers a stateless
\* entry stamped with the time of the allocation; with active_timer non-zero
\* it allocates no stateless entry.
C8_StatelessAllocation ==
  [][(~fm.initialized /\ fm'.initialized) =>
       IF fm.active_timer = 0
       THEN /\ fm'.pool_per_worker = <<>>
            /\ fm'.hash_per_worker = <<>>
            /\ fm'.timers_per_worker = <<>>
            /\ fm'.stateless_entry =
                 [k \in 1 .. (1 + NThreads) |-> [last_exported |-> now]]
       ELSE /\ fm'.stateless_entry = <<>>
            /\ Len(fm'.pool_per_worker) = 1 + NThreads]_vars

\* allocated in stateless mode at a time other than 0
C8_Witness ==
  /\ fm.initialized
  /\ Len(fm.stateless_entry) = 1 + NThreads
  /\ \A k \in 1 .. Len(fm.stateless_entry) :
        fm.stateless_entry[k].last_exported = MaxNow
  /\ fm.pool_per_worker = <<>>

\* C9: a configure with passive_timer non-zero and below active_timer fails
\* through every entry point and leaves the stored parameters as they were.
C9_PassiveBelowActiveRejected ==
  \A at \in TimerInputs, pt \in TimerInputs :
    (pt # 0 /\ pt < at) =>
      \A r \in ConfigureResults(at, pt) :
        r.rv # "0" /\ Params(r.fm) = Params(fm)

\* C10: a request with a variant that is no defined variant (through the
\* tx_interface_add_del handler, which takes it from the message) or with a
\* direction that is none of rx, tx, both is turned down and leaves the
\* interface state as it was.
C10_InvalidParameterRejected ==
  \A i \in Interfaces, is_add \in BOOLEAN :
    /\ \A which \in WhichInputs \ Variants :
         \A r \in TxApiResults(i, which, is_add) :
           r.rv # "0" /\ InterfaceState(r.fm) = InterfaceState(fm)
    /\ \A d \in DirectionInputs :
         ~ValidDirection(d) =>
           \A o \in Oracles(FLOW_VARIANT_SRH_IP6) :
             LET r == vl_api_delayprobe_interface_add_del_t_handler(
                        World, i, d, is_add, o)
             IN r.rv # "0" /\ InterfaceState(r.fm) = InterfaceState(fm)

----------------------------------------------------------------------------
\* the arcs of interface i on which a delayprobe node is switched on
FeaturesOn(arcs, i) == {a \in Arcs : <<a, i>> \in arcs}

\* C11: after a successful disable of an interface that has the variant
\* enabled, through any entry point and with any direction in the call, no
\* delayprobe feature is on on any arc of that interface.
C11_DisableStopsDatapath ==
  \A i \in Interfaces :
    FlowOf(fm, i) = FLOW_VARIANT_SRH_IP6 =>
      \A r \in EnableDisableResults(i, FLOW_VARIANT_SRH_IP6, FALSE) :
        r.rv = "0" => FeaturesOn(r.feature_arcs, i) = {}

----------------------------------------------------------------------------
(* The workers.  Thread 0 is the main thread, 1 .. NThreads the worker      *)
(* threads; each owns the pool, hash table, wheel and expired-handle list  *)
(* of its index.  The packet path, the walker (node.c) and the timer wheel *)
(* (vppinfra/tw_timer_2t_1w_2048sl) follow sections 3 and 4.1 - 4.3 of the *)
(* design; the wheel's expiry callback is the one of delayprobe.c.         *)

Threads == 0 .. NThreads

\* a flow key: the interface the packet came in on and the rest of the key
FlowKeys == [rx_sw_if_index : Interfaces, flow : 0 .. (MaxFlows - 1)]

KeyHash(key, log2len) ==
  (key.rx_sw_if_index * MaxFlows + key.flow) % Pow2(log2len)

\* the two timers of an object on the wheel, and the handle the wheel hands
\* to the expiry callback: the timer id in the top bit, the pool index below
TW_TIMER_ACTIVE == 0
TW_TIMER_PASSIVE == 1

TwHandle(pool_index, timer_id) == timer_id * HandleTopBit + pool_index

tw_timer_start(tw, pool_index, timer_id, expires) ==
  [tw EXCEPT !.timers =
     {x \in @ : x.handle # TwHandle(pool_index, timer_id)}
       \cup {[handle |-> TwHandle(pool_index, timer_id),
              expires |-> expires]}]

tw_timer_stop(tw, handle) ==
  [tw EXCEPT !.timers = {x \in @ : x.handle # handle}]

\* the timers due at time_now
TwExpired(tw, time_now) == {x \in tw.timers : x.expires <= time_now}

RECURSIVE TwBatch(_)
\* a set of due timers as the vector of handles the callback gets: by
\* expiry time, then by handle
TwBatch(due) ==
  IF due = {} THEN <<>>
  ELSE LET first == CHOOSE x \in due :
                      \A y \in due :
                         x.expires < y.expires
                         \/ (x.expires = y.expires /\ x.handle <= y.handle)
       IN <<first.handle>> \o TwBatch(due \ {first})

RECURSIVE delayprobe_expired_timer_callback_unmasked(_, _, _)
\* the callback without the mask of line 261
delayprobe_expired_timer_callback_unmasked(m, my_cpu_number, expired_timers) ==
  IF expired_timers = <<>> THEN m
  ELSE delayprobe_expired_timer_callback_unmasked(
         [m EXCEPT !.expired_passive_per_worker[my_cpu_number + 1] =
                      VecAdd1(@, Head(expired_timers))],
         my_cpu_number, Tail(expired_timers))

RECURSIVE delayprobe_expired_timer_callback(_, _, _)
\* lines 259-263: every handle of the batch goes, top bit cleared, to the end
\* of the expired-handle list of the thread that runs the wheel
delayprobe_expired_timer_callback(m, my_cpu_number, expired_timers) ==
  IF expired_timers = <<>> THEN m
  ELSE delayprobe_expired_timer_callback(
         [m EXCEPT !.expired_passive_per_worker[my_cpu_number + 1] =
                      VecAdd1(@, Head(expired_timers) % HandleTopBit)],
         my_cpu_number, Tail(expired_timers))

\* tw_timer_expire_timers: the due timers leave the wheel and their handles
\* go to the callback registered at line 300
tw_timer_expire_timers(m, t, time_now) ==
  LET tw == At(m.timers_per_worker, t)
      due == TwExpired(tw, time_now)
  IN delayprobe_expired_timer_callback(
       [m EXCEPT !.timers_per_worker[t + 1].timers = @ \ due],
       t, TwBatch(due))

----------------------------------------------------------------------------
(* Flow table of a thread *)

PoolIndices(pool) == {e.index : e \in pool.elts}

PoolEltAtIndex(pool, index) == CHOOSE e \in pool.elts : e.index = index

PoolFreeIndices(pool) == (0 .. (pool.capacity - 1)) \ PoolIndices(pool)

\* how far bucket b is from key's own bucket in the probe order: the key's
\* bucket first, then the buckets after it, wrapping around
ProbeDistance(key, log2len, b) ==
  (b + Pow2(log2len) - KeyHash(key, log2len)) % Pow2(log2len)

\* the buckets of thread t that hold no pool index
FreeBuckets(m, t) ==
  {b \in 0 .. (Len(At(m.hash_per_worker, t)) - 1) :
     At(At(m.hash_per_worker, t), b) = U32_MAX}

\* the buckets of thread t whose entry has this key
KeyBuckets(m, t, key) ==
  {b \in 0 .. (Len(At(m.hash_per_worker, t)) - 1) :
     /\ At(At(m.hash_per_worker, t), b) \in PoolIndices(At(m.pool_per_worker, t))
     /\ PoolEltAtIndex(At(m.pool_per_worker, t),
                       At(At(m.hash_per_worker, t), b)).key = key}

\* the first of a set of buckets in key's probe order
FirstBucket(m, key, buckets) ==
  CHOOSE b \in buckets :
    \A c \in buckets :
       ProbeDistance(key, m.ht_log2len, b) <= ProbeDistance(key, m.ht_log2len, c)

\* the lookup that takes whatever the key's own bucket holds
FlowLookup_bucket_only(m, t, key) ==
  At(At(m.hash_per_worker, t), KeyHash(key, m.ht_log2len))

\* the pool index of key's entry, ~0 if the table has none: the probe goes
\* on from the key's bucket until it finds an entry with the key
FlowLookup(m, t, key) ==
  IF KeyBuckets(m, t, key) = {} THEN U32_MAX
  ELSE At(At(m.hash_per_worker, t),
          FirstBucket(m, key, KeyBuckets(m, t, key)))

\* a new entry for key in the lowest free slot of the pool and the first free
\* bucket of the key's probe order, with both timers started
FlowInsert(m, t, key, octets, time_now) ==
  LET pool == At(m.pool_per_worker, t)
      index == CHOOSE i \in PoolFreeIndices(pool) :
                 \A j \in PoolFreeIndices(pool) : i <= j
      e == [index |-> index, key |-> key, packetcount |-> 1,
            octetcount |-> octets,
            last_updated |-> time_now, last_exported |-> time_now]
  IN [m EXCEPT
        !.pool_per_worker[t + 1].elts = @ \cup {e},
        !.hash_per_worker[t + 1][FirstBucket(m, key, FreeBuckets(m, t)) + 1] =
           index,
        !.timers_per_worker[t + 1] =
           tw_timer_start(
             tw_timer_start(@, index, TW_TIMER_PASSIVE,
                            time_now + m.passive_timer),
             index, TW_TIMER_ACTIVE, time_now + m.active_timer)]

\* one more packet of a resident flow: counters, last-seen, passive timer
\* refreshed
FlowUpdate(m, t, index, octets, time_now) ==
  LET e == PoolEltAtIndex(At(m.pool_per_worker, t), index)
  IN [m EXCEPT
        !.pool_per_worker[t + 1].elts =
           (@ \ {e}) \cup {[e EXCEPT !.packetcount = @ + 1,
                                     !.octetcount = @ + octets,
                                     !.last_updated = time_now]},
        !.timers_per_worker[t + 1] =
           tw_timer_start(@, index, TW_TIMER_PASSIVE,
                          time_now + m.passive_timer)]

\* remove(index): the slot goes back to the pool, the hash slot is cleared,
\* the entry's timers are stopped
FlowDelete(m, t, index) ==
  LET e == PoolEltAtIndex(At(m.pool_per_worker, t), index)
  IN [m EXCEPT
        !.pool_per_worker[t + 1].elts = @ \ {e},
        !.hash_per_worker[t + 1] =
           [k \in 1 .. Len(@) |-> IF @[k] = index THEN U32_MAX ELSE @[k]],
        !.timers_per_worker[t + 1] =
           tw_timer_stop(tw_timer_stop(@, TwHandle(index, TW_TIMER_PASSIVE)),
                         TwHandle(index, TW_TIMER_ACTIVE))]

\* the stateful tables of thread t exist
TablesAllocated(m, t) ==
  /\ t < Len(m.pool_per_worker) /\ At(m.pool_per_worker, t).capacity > 0
  /\ t < Len(m.hash_per_worker) /\ At(m.hash_per_worker, t) # <<>>
  /\ t < Len(m.timers_per_worker) /\ At(m.timers_per_worker, t).initialised
  /\ t < Len(m.expired_passive_per_worker)

\* the packet path that never finds the flow resident
FlowPacket_always_insert(m, t, key, octets, time_now) ==
  IF ~TablesAllocated(m, t) THEN [m EXCEPT !.clobbered = TRUE]
  ELSE IF PoolFreeIndices(At(m.pool_per_worker, t)) = {} \/ FreeBuckets(m, t) = {}
  THEN m
  ELSE FlowInsert(m, t, key, octets, time_now)

\* the packet path of thread t for a packet of flow key; on tables that are
\* not there it reads and writes through null vectors, which leaves fm in no
\* defined state (clobbered)
FlowPacket(m, t, key, octets, time_now) ==
  IF ~TablesAllocated(m, t) THEN [m EXCEPT !.clobbered = TRUE]
  ELSE IF FlowLookup(m, t, key) # U32_MAX
  THEN FlowUpdate(m, t, FlowLookup(m, t, key), octets, time_now)
  ELSE IF PoolFreeIndices(At(m.pool_per_worker, t)) = {} \/ FreeBuckets(m, t) = {}
  THEN m
  ELSE FlowInsert(m, t, key, octets, time_now)

----------------------------------------------------------------------------
(* The walker of thread t (section 4.3): it advances the wheel and handles *)
(* what the callback has put on the thread's expired-handle list.          *)

\* an entry's timer fired: an active expiry exports the entry if it has seen
\* packets and starts the active timer again; a passive expiry exports the
\* final record and removes the entry
WalkerHandle(m, t, index, fired, time_now) ==
  LET e == PoolEltAtIndex(At(m.pool_per_worker, t), index)
  IN IF fired = TW_TIMER_PASSIVE THEN FlowDelete(m, t, index)
     ELSE [m EXCEPT
             !.pool_per_worker[t + 1].elts =
                (@ \ {e}) \cup
                  {IF e.packetcount > 0
                   THEN [e EXCEPT !.packetcount = 0,
                                  !.octetcount = 0,
                                  !.last_exported = time_now]
                   ELSE e},
             !.timers_per_worker[t + 1] =
                tw_timer_start(@, index, TW_TIMER_ACTIVE,
                               time_now + m.active_timer)]

RECURSIVE WalkerHandleAll(_, _, _, _)
\* the handles of expired_passive_per_worker are pool indices of entries
\* whose passive timer is taken to have fired; an index whose entry is gone
\* already is skipped
WalkerHandleAll(m, t, handles, time_now) ==
  IF handles = <<>> THEN m
  ELSE WalkerHandleAll(
         IF Head(handles) \in PoolIndices(At(m.pool_per_worker, t))
         THEN WalkerHandle(m, t, Head(handles), TW_TIMER_PASSIVE, time_now)
         ELSE m,
         t, Tail(handles), time_now)

WalkerDrained(m, t, time_now) ==
  [WalkerHandleAll(m, t, At(m.expired_passive_per_worker, t).elts, time_now)
     EXCEPT !.expired_passive_per_worker[t + 1].elts = <<>>]

----------------------------------------------------------------------------
(* timer_process: the scheduler on the main thread *)

\* vlib_get_n_threads (): the main thread and the worker threads
vlib_get_n_threads == 1 + NThreads

RECURSIVE TimerProcessSignal_workers_only(_, _, _, _)
\* the loop without the interrupt for the main thread (index 0)
TimerProcessSignal_workers_only(m, pending, sleep_duration, i) ==
  IF i >= vlib_get_n_threads
  THEN [pending |-> pending, sleep_duration |-> sleep_duration]
  ELSE TimerProcessSignal_workers_only(
         m, IF i = 0 THEN pending ELSE pending \cup {i},
         IF At(m.expired_passive_per_worker, i).allocated
         THEN SLEEP_SHORT ELSE SLEEP_LONG,
         i + 1)

RECURSIVE TimerProcessSignal(_, _, _, _)
\* lines 1043-1053 for worker_vms[i] and the ones after it: the interrupt is
\* set pending and sleep_duration assigned from the thread's list pointer
TimerProcessSignal(m, pending, sleep_duration, i) ==
  IF i >= vlib_get_n_threads
  THEN [pending |-> pending, sleep_duration |-> sleep_duration]
  ELSE TimerProcessSignal(
         m, pending \cup {i},
         IF At(m.expired_passive_per_worker, i).allocated
         THEN SLEEP_SHORT ELSE SLEEP_LONG,
         i + 1)

\* lines 1042-1054: one turn of the loop, up to the suspend
TimerProcessTurn(m, pending) ==
  TimerProcessSignal(m, pending, SLEEP_LONG, 0)

----------------------------------------------------------------------------
(* Actions of the workers and of the scheduler *)

\* a packet of flow key with this many octets reaches the delayprobe node of
\* thread t: the feature is on on an arc of the packet's interface and the
\* probe keeps flow state
PacketOctets(t, key, octets) ==
  /\ FeaturesOn(feature_arcs, key.rx_sw_if_index) # {}
  /\ fm.active_timer # 0
  /\ TablesAllocated(fm, t) /\ FlowLookup(fm, t, key) # U32_MAX =>
       PoolEltAtIndex(At(fm.pool_per_worker, t),
                      FlowLookup(fm, t, key)).packetcount < MaxPackets
  /\ fm' = FlowPacket(fm, t, key, octets, now)
  /\ UNCHANGED <<exporter, feature_arcs, timer_node, now, control,
                 walker_pending, rewrite>>

\* a packet of the smallest size
Packet(t, key) == PacketOctets(t, key, 1)

\* the walker of thread t takes its interrupt and advances the wheel
WalkerExpire(t) ==
  /\ t \in walker_pending
  /\ TablesAllocated(fm, t)
  /\ At(fm.expired_passive_per_worker, t).elts = <<>>
  /\ walker_pending' = walker_pending \ {t}
  /\ fm' = tw_timer_expire_timers(fm, t, now)
  /\ UNCHANGED <<exporter, feature_arcs, timer_node, now, control, rewrite>>

\* the walker of thread t handles the expired handles
WalkerDrain(t) ==
  /\ TablesAllocated(fm, t)
  /\ At(fm.expired_passive_per_worker, t).elts # <<>>
  /\ fm' = WalkerDrained(fm, t, now)
  /\ UNCHANGED <<exporter, feature_arcs, timer_node, now, control,
                 walker_pending, rewrite>>

\* lines 1019-1054: the kickoff event arrives, first turn of the loop
TimerProcessStart ==
  /\ control = "idle"
  /\ timer_node.pc = "wait_for_event"
  /\ timer_node.events # <<>>
  /\ LET r == TimerProcessTurn(fm, walker_pending)
     IN /\ walker_pending' = r.pending
        /\ timer_node' = [events |-> <<>>, pc |-> "suspended",
                          sleep_duration |-> r.sleep_duration]
  /\ UNCHANGED <<fm, exporter, feature_arcs, now, control, rewrite>>

\* lines 1039-1055: the process resumes after its sleep, next turn
TimerProcessLoop ==
  /\ control = "idle"
  /\ timer_node.pc = "suspended"
  /\ LET r == TimerProcessTurn(fm, walker_pending)
     IN /\ walker_pending' = r.pending
        /\ timer_node' = [timer_node EXCEPT
                            !.sleep_duration = r.sleep_duration]
  /\ UNCHANGED <<fm, exporter, feature_arcs, now, control, rewrite>>

\* the first enable in two steps, as the workers can see it: the checks and
\* lines 346-396 of delayprobe_interface_add_del_feature (the arcs are
\* switched on) ...
CliEnableArcs(sw_if_index, direction) ==
  /\ control = "idle"
  /\ fm.record # 0
  /\ sw_if_index \in Interfaces
  /\ ~fm.initialized
  /\ LET v == validate_feature_on_interface(fm, sw_if_index,
                                            FLOW_VARIANT_SRH_IP6)
         p == InterfaceAddDelFeatureArcs(
                [World EXCEPT !.fm = v.fm], sw_if_index,
                FLOW_VARIANT_SRH_IP6, direction, TRUE,
                [stream_ok |-> TRUE, oob_read |-> 0])
     IN /\ v.rv = -1
        /\ p.rv = "0"
        /\ fm' = p.fm
        /\ exporter' = p.exporter
        /\ feature_arcs' = p.feature_arcs
  /\ control' = "create_state_tables"
  /\ UNCHANGED <<timer_node, now, walker_pending, rewrite>>

\* ... and lines 398-406 (the tables are allocated, the scheduler kicked off)
CliEnableTables ==
  /\ control = "create_state_tables"
  /\ LET r == StatefulFlowCollection(World, fm, TRUE)
     IN /\ fm' = r.fm
        /\ timer_node' = r.timer_node
  /\ control' = "idle"
  /\ UNCHANGED <<exporter, feature_arcs, now, walker_pending, rewrite>>

\* Flow state is kept (active_timer 1, passive_timer MaxTimer); interface 0
\* is enabled and disabled through the CLI while packets arrive on every
\* thread, the scheduler turns and the walkers run.
NextFlow ==
  \/ CliParams(1, MaxTimer)
  \/ \E d \in CliDirections : CliEnableArcs(0, d)
  \/ CliEnableTables
  \/ \E d \in CliDirections, a \in BOOLEAN :
        CliAddDel(0, d, a, [stream_ok |-> TRUE, oob_read |-> 0])
  \/ \E t \in Threads, key \in FlowKeys : Packet(t, key)
  \/ \E t \in Threads : WalkerExpire(t)
  \/ \E t \in Threads : WalkerDrain(t)
  \/ TimerProcessStart
  \/ TimerProcessLoop
  \/ Tick

SpecFlow == Init /\ [][NextFlow]_vars

----------------------------------------------------------------------------
\* what the workers own
WorkerState(m) ==
  <<m.pool_per_worker, m.hash_per_worker, m.timers_per_worker,
    m.expired_passive_per_worker>>

\* C12: a disable, through any entry point, accepted or not, leaves every
\* thread's pool, hash table, timer wheel and expired-handle list as they
\* are: the entries, their running timers and the handles waiting for the
\* walker are all still there after it.
C12_DisableKeepsWorkerState ==
  control = "idle" =>
    \A i \in Interfaces, which \in WhichInputs :
      \A r \in EnableDisableResults(i, which, FALSE) :
        WorkerState(r.fm) = WorkerState(fm)

\* interface 0 is enabled; one thread holds an entry with a running timer,
\* another thread holds an expired handle the walker has not handled yet;
\* the disable is accepted
C12_Witness ==
  /\ control = "idle"
  /\ FlowOf(fm, 0) = FLOW_VARIANT_SRH_IP6
  /\ TablesAllocated(fm, 0) /\ TablesAllocated(fm, NThreads)
  /\ At(fm.pool_per_worker, 0).elts # {}
  /\ At(fm.timers_per_worker, 0).timers # {}
  /\ At(fm.expired_passive_per_worker, NThreads).elts # <<>>
  /\ \A r \in CliResults(0, FALSE) : r.rv = "0"

----------------------------------------------------------------------------
\* this step is a turn of the scheduler loop: the process leaves its wait,
\* an interrupt is set, or the sleep duration changes
SchedulerStep ==
  \/ timer_node'.pc # timer_node.pc
  \/ timer_node'.sleep_duration # timer_node.sleep_duration
  \/ walker_pending' \ walker_pending # {}

\* C13: after a turn of the scheduler loop the walker interrupt is pending
\* on every thread and the process is suspended; the turn changes nothing of
\* fm, so no pool, hash table, wheel or expired-handle list.
C13_SchedulerOnlySignals ==
  [][SchedulerStep =>
       /\ walker_pending' = Threads
       /\ timer_node'.pc = "suspended"
       /\ fm' = fm
       /\ WorkerState(fm') = WorkerState(fm)]_vars

\* the scheduler has turned while a thread holds an entry with running
\* timers and a thread holds handles its walker has not handled
C13_Witness ==
  /\ timer_node.pc = "suspended"
  /\ walker_pending = Threads
  /\ \E t \in Threads : At(fm.pool_per_worker, t).elts # {}
  /\ \E t \in Threads : At(fm.expired_passive_per_worker, t).elts # <<>>

----------------------------------------------------------------------------
\* the scheduler process can take a turn of its loop
SchedulerCanTurn ==
  /\ control = "idle"
  /\ timer_node.pc = "suspended"
       \/ (timer_node.pc = "wait_for_event" /\ timer_node.events # <<>>)

\* some thread has expired handles its walker has not handled
SomePending(m) ==
  \E t \in Threads : At(m.expired_passive_per_worker, t).elts # <<>>

\* C14: the sleep duration a turn of the scheduler loop chooses is the short
\* one if some thread, whatever its index, has expired handles waiting, and
\* the long one if no thread has.
C14_SleepFollowsPending ==
  SchedulerCanTurn =>
    TimerProcessTurn(fm, walker_pending).sleep_duration =
      IF SomePending(fm) THEN SLEEP_SHORT ELSE SLEEP_LONG

----------------------------------------------------------------------------
\* The timers are switched between off and their defaults and the interfaces
\* are enabled and disabled through the CLI; the scheduler process is resumed
\* whenever its wait or sleep is over and every walker takes its interrupt:
\* vlib runs a process that is ready and an input node whose interrupt is
\* pending.
NextLive ==
  \/ \E at \in DefaultOrOff : CliParams(at, U32_MAX)
  \/ \E i \in Interfaces, d \in CliDirections, a \in BOOLEAN :
        CliAddDel(i, d, a, [stream_ok |-> TRUE, oob_read |-> 0])
  \/ TimerProcessStart
  \/ TimerProcessLoop
  \/ \E t \in Threads : WalkerExpire(t)

SpecLive ==
  /\ Init
  /\ [][NextLive]_vars
  /\ WF_vars(TimerProcessStart)
  /\ WF_vars(TimerProcessLoop)
  /\ \A t \in Threads : WF_vars(WalkerExpire(t))

\* the kickoff event has been signalled to timer_process
KickedOff == timer_node.pc = "suspended" \/ timer_node.events # <<>>

\* C15: whenever active_timer is non-zero and an interface is enabled, the
\* scheduler has been kicked off, and from then on the walker interrupt of
\* every thread is set again and again.
C15_WalkersInterrupted ==
  /\ []((fm.active_timer # 0 /\ SomeEnabled) => KickedOff)
  /\ \A t \in Threads :
        []((fm.active_timer # 0 /\ SomeEnabled) =>
             []<>(t \in walker_pending))

----------------------------------------------------------------------------
\* C16: in every state the workers can see, the states between the steps of
\* the first enable included, a delayprobe feature is on on an interface only
\* if the tables and wheel of every thread are allocated, and no packet path
\* or walker has run on tables that are not there.
C16_AllocatedBeforeActive ==
  /\ (fm.active_timer # 0 /\ \E i \in Interfaces :
                               FeaturesOn(feature_arcs, i) # {}) =>
       \A t \in Threads : TablesAllocated(fm, t)
  /\ ~fm.clobbered

----------------------------------------------------------------------------
(* The IPFIX template packet.  The exporter calls the rewrite callback of  *)
(* a registered report when it sends the template; the callback builds the *)
(* packet and stores the template size in fm.  Header sizes and the        *)
(* packing of two 16-bit values into a 32-bit word are those of            *)
(* vnet/ipfix-export/ipfix_packet.h; a field on the wire is written as the *)
(* number its octets spell in network byte order.                          *)

sizeof_ip4_header_t == 20
sizeof_udp_header_t == 8
sizeof_ipfix_message_header_t == 16
sizeof_ipfix_set_header_t == 4
sizeof_ipfix_template_header_t == 4
sizeof_ipfix_field_specifier_t == 4

\* ip4_ipfix_template_packet_t: the headers, then fields[0]
sizeof_ip4_ipfix_template_packet_t ==
  sizeof_ip4_header_t + sizeof_udp_header_t + sizeof_ipfix_message_header_t
    + sizeof_ipfix_set_header_t + sizeof_ipfix_template_header_t

IP_PROTOCOL_UDP == 17
FLOW_SRH_MAX_SID_LIST == 16

\* two 16-bit halves of a 32-bit word
Pack16(hi, lo) == (hi % U16_MOD) * U16_MOD + (lo % U16_MOD)
Hi16(word) == word \div U16_MOD
Lo16(word) == word % U16_MOD

\* a field specifier: enterprise bit, information element, length
ipfix_e_id_length(e, id, length) ==
  [enterprise |-> e, id |-> id, length |-> length % U16_MOD]

ipfix_id_count(id, count) == Pack16(id, count)
ipfix_set_id_length(set_id, length) == Pack16(set_id, length)
version_length(length) == Pack16(10, length)

\* the header checksum stands for any function of the header's fields
ip4_header_checksum(ip) ==
  65535 - ((ip.ip_version_and_header_length * 256 + ip.length
            + ip.ttl * 256 + ip.protocol
            + ip.src_address + ip.dst_address) % 65535)

\* line 72
delayprobe_template_ip6_srh_field_count == 11

\* the specifiers with packetDeltaCount and octetDeltaCount in the other order
delayprobe_template_ip6_srh_fields_swapped(f) ==
  f \o <<ipfix_e_id_length(0, "sourceIPv6Address", 16),
         ipfix_e_id_length(0, "srhActiveSegmentIPv6", 16),
         ipfix_e_id_length(0, "srhSegmentEndpointBehavior", 2),
         ipfix_e_id_length(0, "srhSegmentIPv6sLeft", 1),
         ipfix_e_id_length(0, "srhFlagsIPv6", 1),
         ipfix_e_id_length(0, "srhTagIPv6", 2),
         ipfix_e_id_length(0, "srhSegmentIPv6BasicList",
                           16 * FLOW_SRH_MAX_SID_LIST),
         ipfix_e_id_length(0, "sourceIPv6Address", 16),
         ipfix_e_id_length(0, "destinationIPv6Address", 16),
         ipfix_e_id_length(0, "octetDeltaCount", 8),
         ipfix_e_id_length(0, "packetDeltaCount", 8)>>

\* lines 69-115: f is the specifiers written so far, the result those after
\* the function has written its own
delayprobe_template_ip6_srh_fields(f) ==
  f \o <<ipfix_e_id_length(0, "sourceIPv6Address", 16),
         ipfix_e_id_length(0, "srhActiveSegmentIPv6", 16),
         ipfix_e_id_length(0, "srhSegmentEndpointBehavior", 2),
         ipfix_e_id_length(0, "srhSegmentIPv6sLeft", 1),
         ipfix_e_id_length(0, "srhFlagsIPv6", 1),
         ipfix_e_id_length(0, "srhTagIPv6", 2),
         ipfix_e_id_length(0, "srhSegmentIPv6BasicList",
                           16 * FLOW_SRH_MAX_SID_LIST),
         ipfix_e_id_length(0, "sourceIPv6Address", 16),
         ipfix_e_id_length(0, "destinationIPv6Address", 16),
         ipfix_e_id_length(0, "packetDeltaCount", 8),
         ipfix_e_id_length(0, "octetDeltaCount", 8)>>

\* the rewrite with the template size taken before the specifiers are
\* written
delayprobe_template_rewrite_inline_early_size(m, exp, fr, collector_port, which) ==
  LET field_count == delayprobe_template_ip6_srh_field_count
      vec_len == sizeof_ip4_ipfix_template_packet_t
                   + field_count * sizeof_ipfix_field_specifier_t
      ip == 0
      udp == ip + sizeof_ip4_header_t
      h == udp + sizeof_udp_header_t
      s == h + sizeof_ipfix_message_header_t
      t == s + sizeof_ipfix_set_header_t
      first_field == t + sizeof_ipfix_template_header_t
      fields == delayprobe_template_ip6_srh_fields(<<>>)
      f == first_field + Len(fields) * sizeof_ipfix_field_specifier_t
      ip4 == [ip_version_and_header_length |-> 69, ttl |-> 254,
              protocol |-> IP_PROTOCOL_UDP,
              src_address |-> exp.src_address,
              dst_address |-> exp.ipfix_collector,
              length |-> (f - ip) % U16_MOD]
  IN [fm |-> [m EXCEPT !.template_size[fr.opaque] = first_field - s],
      rewrite |->
        [vec_len |-> vec_len,
         ip |-> ip4,
         checksum |-> ip4_header_checksum(ip4),
         udp |-> [src_port |-> exp.src_port % U16_MOD,
                  dst_port |-> collector_port % U16_MOD,
                  length |-> (vec_len - sizeof_ip4_header_t) % U16_MOD],
         h |-> [version_length |-> version_length(f - h),
                domain_id |-> exp.domain_id],
         s |-> [set_id_length |-> ipfix_set_id_length(2, f - s)],
         t |-> [id_count |->
                  ipfix_id_count(fr.template_id,
                                 (f - first_field)
                                    \div sizeof_ipfix_field_specifier_t)],
         fields |-> fields]]

\* lines 126-198: the packet (rewrite) and fm with template_size[flags] set;
\* ip, udp, h, s, t, first_field and f are offsets into the packet
delayprobe_template_rewrite_inline(m, exp, fr, collector_port, which) ==
  LET field_count == delayprobe_template_ip6_srh_field_count
      vec_len == sizeof_ip4_ipfix_template_packet_t
                   + field_count * sizeof_ipfix_field_specifier_t
      ip == 0
      udp == ip + sizeof_ip4_header_t
      h == udp + sizeof_udp_header_t
      s == h + sizeof_ipfix_message_header_t
      t == s + sizeof_ipfix_set_header_t
      first_field == t + sizeof_ipfix_template_header_t
      fields == delayprobe_template_ip6_srh_fields(<<>>)
      f == first_field + Len(fields) * sizeof_ipfix_field_specifier_t
      ip4 == [ip_version_and_header_length |-> 69, ttl |-> 254,
              protocol |-> IP_PROTOCOL_UDP,
              src_address |-> exp.src_address,
              dst_address |-> exp.ipfix_collector,
              length |-> (f - ip) % U16_MOD]
  IN [fm |-> [m EXCEPT !.template_size[fr.opaque] = f - s],
      rewrite |->
        [vec_len |-> vec_len,
         ip |-> ip4,
         checksum |-> ip4_header_checksum(ip4),
         udp |-> [src_port |-> exp.src_port % U16_MOD,
                  dst_port |-> collector_port % U16_MOD,
                  length |-> (vec_len - sizeof_ip4_header_t) % U16_MOD],
         h |-> [version_length |-> version_length(f - h),
                domain_id |-> exp.domain_id],
         s |-> [set_id_length |-> ipfix_set_id_length(2, f - s)],
         t |-> [id_count |->
                  ipfix_id_count(fr.template_id,
                                 (f - first_field)
                                    \div sizeof_ipfix_field_specifier_t)],
         fields |-> fields]]

delayprobe_template_rewrite_srh_ip6(m, exp, fr, collector_port) ==
  delayprobe_template_rewrite_inline(m, exp, fr, collector_port,
                                     FLOW_VARIANT_SRH_IP6)

\* what the exporter is configured with: addresses, source port, domain
ExporterSettings ==
  [src_address : {0, 1}, ipfix_collector : {2, 3},
   src_port : {4739, 4740}, domain_id : {1}]

CollectorPorts == {4739, 2055}

\* the exporter sends the template of the registered report: it calls the
\* report's rewrite callback
TemplateRewrite(exp, collector_port) ==
  /\ control = "idle"
  /\ Registered(exporter)
  /\ LET fr == [opaque |-> FLOW_RECORD_L3,
                template_id |-> exporter.reports[FLOW_RECORD_L3]]
         r == delayprobe_template_rewrite_srh_ip6(fm, exp, fr, collector_port)
     IN /\ fm' = r.fm
        /\ rewrite' = r.rewrite
  /\ UNCHANGED <<exporter, feature_arcs, timer_node, now, control,
                 walker_pending>>

\* The interfaces are enabled and disabled through the CLI and the exporter,
\* under every setting, sends the template of the registered report.
NextTemplate ==
  \/ \E at \in DefaultOrOff : CliParams(at, U32_MAX)
  \/ \E i \in Interfaces, a \in BOOLEAN :
        CliAddDel(i, FLOW_DIRECTION_TX, a,
                  [stream_ok |-> TRUE, oob_read |-> 0])
  \/ \E exp \in ExporterSettings, port \in CollectorPorts :
        TemplateRewrite(exp, port)

SpecTemplate == Init /\ [][NextTemplate]_vars

----------------------------------------------------------------------------
(* The template's field list and its header.                               *)

TemplateBuilt == DOMAIN rewrite # {}

\* the information elements and lengths the template is to list, in order
TemplateFieldList ==
  <<<<"sourceIPv6Address", 16>>,
    <<"srhActiveSegmentIPv6", 16>>,
    <<"srhSegmentEndpointBehavior", 2>>,
    <<"srhSegmentIPv6sLeft", 1>>,
    <<"srhFlagsIPv6", 1>>,
    <<"srhTagIPv6", 2>>,
    <<"srhSegmentIPv6BasicList", 16 * FLOW_SRH_MAX_SID_LIST>>,
    <<"sourceIPv6Address", 16>>,
    <<"destinationIPv6Address", 16>>,
    <<"packetDeltaCount", 8>>,
    <<"octetDeltaCount", 8>>>>

\* C17: the template packet lists exactly 11 field specifiers, in the order
\* and with the lengths of TemplateFieldList; the field count written in the
\* template header is 11 and the set id is 2.
C17_TemplateFields ==
  TemplateBuilt =>
    /\ Len(rewrite.fields) = 11
    /\ Len(TemplateFieldList) = 11
    /\ \A k \in 1 .. 11 :
          /\ rewrite.fields[k].enterprise = 0
          /\ rewrite.fields[k].id = TemplateFieldList[k][1]
          /\ rewrite.fields[k].length = TemplateFieldList[k][2]
    /\ Lo16(rewrite.t.id_count) = 11
    /\ Hi16(rewrite.s.set_id_length) = 2

\* a template packet has been built for the registered report
C17_Witness ==
  /\ TemplateBuilt
  /\ Registered(exporter)
  /\ Len(rewrite.fields) = delayprobe_template_ip6_srh_field_count

----------------------------------------------------------------------------
(* The lengths written in the template packet.                             *)

TemplateEnd ==
  sizeof_ip4_ipfix_template_packet_t
    + Len(rewrite.fields) * sizeof_ipfix_field_specifier_t

\* C18: in the template packet the IPv4 total length is the IPv4 header size
\* plus the UDP length, the UDP length is the UDP header size plus the
\* message length, the message length is the message header size plus the
\* set length, the cached template size of the variant is the set length
\* (set header, template header and 11 specifiers), and the IPv4 length ends
\* at the end of the last specifier.
C18_TemplateLengths ==
  TemplateBuilt =>
    LET set_length == Lo16(rewrite.s.set_id_length)
        message_length == Lo16(rewrite.h.version_length)
    IN /\ rewrite.ip.length = sizeof_ip4_header_t + rewrite.udp.length
       /\ rewrite.udp.length = sizeof_udp_header_t + message_length
       /\ message_length = sizeof_ipfix_message_header_t + set_length
       /\ fm.template_size[FLOW_RECORD_L3] = set_length
       /\ set_length = sizeof_ipfix_set_header_t
                         + sizeof_ipfix_template_header_t
                         + 11 * sizeof_ipfix_field_specifier_t
       /\ rewrite.ip.length = TemplateEnd
       /\ rewrite.vec_len = TemplateEnd

\* a template packet has been built and its size cached
C18_Witness ==
  /\ TemplateBuilt
  /\ fm.template_size[FLOW_RECORD_L3] # 0
  /\ rewrite.udp.length # 0

----------------------------------------------------------------------------
(* Which expiry removes an entry, and when.                                *)

\* the entries of thread t
Resident(m, t) ==
  IF TablesAllocated(m, t) THEN At(m.pool_per_worker, t).elts ELSE {}

\* the passive timer of the entry at index is on the wheel: it has not fired
PassiveRunning(m, t, index) ==
  \E x \in At(m.timers_per_worker, t).timers :
     x.handle = TwHandle(index, TW_TIMER_PASSIVE)

\* the walker of thread t removes entry e in this step
WalkerRemoves(t, e) ==
  /\ e \in Resident(fm, t)
  /\ At(fm.expired_passive_per_worker, t).elts # <<>>
  /\ fm' = WalkerDrained(fm, t, now)
  /\ e.index \notin PoolIndices(At(fm'.pool_per_worker, t))

----------------------------------------------------------------------------
(* The workers with one flow of interface 0: enable and disable through    *)
(* the CLI, the flow's packets on the main thread and on the last worker,  *)
(* the scheduler and the walkers of all threads.                           *)

NextWorkers ==
  \/ CliParams(1, MaxTimer)
  \/ \E a \in BOOLEAN :
        CliAddDel(0, FLOW_DIRECTION_TX, a,
                  [stream_ok |-> TRUE, oob_read |-> 0])
  \/ \E t \in {0, NThreads} : Packet(t, [rx_sw_if_index |-> 0, flow |-> 0])
  \/ \E t \in Threads : WalkerExpire(t)
  \/ \E t \in Threads : WalkerDrain(t)
  \/ TimerProcessStart
  \/ TimerProcessLoop
  \/ Tick

SpecWorkers == Init /\ [][NextWorkers]_vars

----------------------------------------------------------------------------
(* An active expiry of an idle entry.                                      *)

\* every resident entry has seen a packet since it was last exported: no
\* entry is resident after an export, because the walker handles every
\* expired handle as a passive expiry
ResidentEntriesHavePackets ==
  \A t \in Threads : \A e \in Resident(fm, t) : e.packetcount > 0

----------------------------------------------------------------------------
(* The flow table of one thread under colliding keys: two flows of         *)
(* interface 0 whose keys hash to the same bucket; entries leave the table *)
(* through the walker.                                                     *)

TableThread == 0

\* two keys that differ in a field and share a bucket
TableKeys ==
  {[rx_sw_if_index |-> 0, flow |-> 0],
   [rx_sw_if_index |-> 0, flow |-> Pow2(delayprobe_LOG2_HASHSIZE)]}

NextTable ==
  \/ CliParams(1, MaxTimer)
  \/ \E a \in BOOLEAN :
        CliAddDel(0, FLOW_DIRECTION_TX, a,
                  [stream_ok |-> TRUE, oob_read |-> 0])
  \/ \E key \in TableKeys : Packet(TableThread, key)
  \/ WalkerExpire(TableThread)
  \/ WalkerDrain(TableThread)
  \/ TimerProcessStart
  \/ TimerProcessLoop
  \/ Tick

SpecTable == Init /\ [][NextTable]_vars

----------------------------------------------------------------------------
(* The packet-path update run twice with one key: the flows of the table   *)
(* above with packets of two sizes, and no expiry.                         *)

PacketSizes == {1, 2}

NextCounters ==
  \/ CliParams(1, MaxTimer)
  \/ \E i \in Interfaces, a \in BOOLEAN :
        CliAddDel(i, FLOW_DIRECTION_TX, a,
                  [stream_ok |-> TRUE, oob_read |-> 0])
  \/ \E key \in TableKeys, octets \in PacketSizes :
        PacketOctets(TableThread, key, octets)

SpecCounters == Init /\ [][NextCounters]_vars

EntriesOf(m, t, key) == {e \in Resident(m, t) : e.key = key}

\* the one entry of a set, or an entry without packets for the empty set
TheEntry(es) ==
  IF es = {} THEN [index |-> U32_MAX, packetcount |-> 0, octetcount |-> 0]
  ELSE CHOOSE e \in es : TRUE

\* C23: wherever the table has the key or room for it, the packet path run
\* twice for the key leaves exactly one entry of it: the second run resolves
\* to the pool index of the first, the pool has as many entries as after the
\* first, and the entry's packet and octet counters have grown by two
\* packets and by the sum of the two packets' octets.
C23_UpdateTwice ==
  \A key \in TableKeys, d1 \in PacketSizes, d2 \in PacketSizes :
    LET before == EntriesOf(fm, TableThread, key)
        m1 == FlowPacket(fm, TableThread, key, d1, now)
        m2 == FlowPacket(m1, TableThread, key, d2, now)
        first == EntriesOf(m1, TableThread, key)
        second == EntriesOf(m2, TableThread, key)
    IN (/\ TablesAllocated(fm, TableThread)
        /\ Cardinality(before) <= 1
        /\ before # {}
             \/ PoolFreeIndices(At(fm.pool_per_worker, TableThread)) # {}) =>
         /\ Cardinality(first) = 1
         /\ Cardinality(second) = 1
         /\ Cardinality(Resident(m2, TableThread))
              = Cardinality(Resident(m1, TableThread))
         /\ TheEntry(second).index = TheEntry(first).index
         /\ FlowLookup(m1, TableThread, key) = TheEntry(first).index
         /\ FlowLookup(m2, TableThread, key) = TheEntry(first).index
         /\ TheEntry(second).packetcount = TheEntry(before).packetcount + 2
         /\ TheEntry(second).octetcount
              = TheEntry(before).octetcount + d1 + d2

\* an entry that two packets of different sizes have updated
C23_Witness ==
  \E key \in TableKeys : \E e \in EntriesOf(fm, TableThread, key) :
     /\ e.packetcount = 2
     /\ e.octetcount = 3
     /\ FlowLookup(fm, TableThread, key) = e.index

----------------------------------------------------------------------------
(* The allocated state and the mode the stored active_timer selects.       *)

\* the stateless entries of all threads exist
StatelessAllocated(m) == Len(m.stateless_entry) >= vlib_get_n_threads

\* C24: whenever an interface is enabled, the per-thread state of the mode
\* the stored active_timer selects exists: pools, hash tables and timer
\* wheels if it is non-zero, the stateless entries if it is zero.
C24_AllocationMatchesMode ==
  SomeEnabled =>
    /\ fm.active_timer # 0 => \A t \in Threads : TablesAllocated(fm, t)
    /\ fm.active_timer = 0 => StatelessAllocated(fm)

----------------------------------------------------------------------------
(* The live-interface count of a variant.                                  *)

\* the interfaces whose flow_per_interface entry is this variant
InterfacesOf(m, variant) ==
  {i \in 0 .. (Len(m.flow_per_interface) - 1) :
     At(m.flow_per_interface, i) = variant}

\* C25: the live-interface count of each variant is the number of interfaces
\* whose flow_per_interface entry is the variant.
C25_CountMatchesInterfaces ==
  \A variant \in Variants :
    fm.template_per_flow[variant] = Cardinality(InterfacesOf(fm, variant))

----------------------------------------------------------------------------
(* The order of the stored timers.                                         *)

\* C26: the stored parameters have passive_timer = 0 or
\* passive_timer >= active_timer, initially and after every configure call.
C26_PassiveNotBelowActive ==
  fm.passive_timer = 0 \/ fm.passive_timer >= fm.active_timer


\* a timer above the default passive timer
TimerAboveDefault == delayprobe_TIMER_PASSIVE + 1

\* The handlers that test the order of the timers, with every pair of
\* explicit values, 'use default' (~0) and off (0), and the CLI enable and
\* disable.
NextDefaults ==
  \/ \E at \in TimerInputs \cup {TimerAboveDefault}, pt \in TimerInputs :
        ApiSetParams(at, pt)
  \/ \E at \in TimerInputs \cup {TimerAboveDefault}, pt \in TimerInputs :
        CliParams(at, pt)
  \/ \E i \in Interfaces, a \in BOOLEAN :
        CliAddDel(i, FLOW_DIRECTION_TX, a,
                  [stream_ok |-> TRUE, oob_read |-> 0])

SpecDefaults == Init /\ [][NextDefaults]_vars

----------------------------------------------------------------------------
(* Enable and disable before the first successful configure.               *)

\* no interface is enabled, no count is set, no template is registered, no
\* feature is on and nothing is allocated
NothingEnabled(m, e, arcs) ==
  /\ \A i \in Interfaces : FlowOf(m, i) = U8_UNSET
  /\ \A v \in Variants : m.template_per_flow[v] = 0
  /\ ~Registered(e)
  /\ arcs = {}
  /\ Allocation(m) = NothingAllocated
  /\ ~m.initialized

\* C27: while the record flags are zero, every enable or disable request,
\* through any entry point and with any argument, is rejected with an
\* error and changes nothing: no interface is enabled, no count is set, no
\* template is registered and nothing is allocated, before and after it.
C27_RejectedBeforeConfigure ==
  fm.record = 0 =>
    /\ NothingEnabled(fm, exporter, feature_arcs)
    /\ \A i \in SwIfInputs, which \in WhichInputs, a \in BOOLEAN :
         \A r \in EnableDisableResults(i, which, a) :
            /\ r.rv # "0"
            /\ r.fm = fm
            /\ r.exporter = exporter
            /\ r.feature_arcs = feature_arcs
            /\ r.timer_node = timer_node

\* configure has not succeeded yet and each entry point turns down an enable
\* of interface 0 because of that
C27_Witness ==
  /\ fm.record = 0
  /\ \A r \in TxApiResults(0, FLOW_VARIANT_SRH_IP6, TRUE) :
        r.rv = "VNET_API_ERROR_CANNOT_ENABLE_DISABLE_FEATURE"
  /\ \A r \in ApiResults(0, TRUE) :
        r.rv \in {"VNET_API_ERROR_CANNOT_ENABLE_DISABLE_FEATURE",
                  "VNET_API_ERROR_INVALID_VALUE"}
  /\ \A r \in CliResults(0, TRUE) : r.rv = "clib_error"

----------------------------------------------------------------------------
(* The state of the threads right after the stateful allocation.           *)

\* this step allocates the stateful tables
StatefulAllocationStep ==
  /\ ~fm.initialized
  /\ fm'.initialized
  /\ fm'.active_timer # 0

\* thread t has a pool of 2^L free slots, a hash table of exactly 2^L
\* buckets that all hold ~0, and an initialised timer wheel
FreshTables(m, t) ==
  /\ TablesAllocated(m, t)
  /\ At(m.pool_per_worker, t).capacity = Pow2(m.ht_log2len)
  /\ At(m.pool_per_worker, t).elts = {}
  /\ Len(At(m.hash_per_worker, t)) = Pow2(m.ht_log2len)
  /\ \A b \in 0 .. (Pow2(m.ht_log2len) - 1) :
        At(At(m.hash_per_worker, t), b) = U32_MAX
  /\ At(m.timers_per_worker, t).initialised
  /\ At(m.timers_per_worker, t).timers = {}

\* C28: right after the stateful allocation there is, for the main thread
\* and for each worker thread and for no other index, a pool of capacity
\* 2^L, a hash table of exactly 2^L buckets all holding ~0 and a timer
\* wheel, with L = delayprobe_LOG2_HASHSIZE; each thread has its own slot in
\* each of the per-thread vectors.
C28_FreshTablesPerThread ==
  [][StatefulAllocationStep =>
       /\ fm'.ht_log2len = delayprobe_LOG2_HASHSIZE
       /\ Len(fm'.pool_per_worker) = vlib_get_n_threads
       /\ Len(fm'.hash_per_worker) = vlib_get_n_threads
       /\ Len(fm'.timers_per_worker) = vlib_get_n_threads
       /\ Len(fm'.expired_passive_per_worker) = vlib_get_n_threads
       /\ \A t \in Threads : FreshTables(fm', t)]_vars

\* the stateful tables have been allocated and an interface is enabled
C28_Witness ==
  /\ fm.initialized
  /\ fm.active_timer # 0
  /\ SomeEnabled
  /\ \A t \in Threads : FreshTables(fm, t)

----------------------------------------------------------------------------
(* What the expiry callback does with a batch.                             *)

\* the times up to which a wheel can be advanced
Horizon == 0 .. (MaxNow + MaxTimer)

\* the batch the wheel of thread t reports when it is advanced to time h
BatchAt(m, t, h) == TwBatch(TwExpired(At(m.timers_per_worker, t), h))

\* C29: for a batch of n handles that the wheel of a thread reports, the
\* callback run on that thread appends exactly n values to the thread's
\* expired-handle list, in batch order, each the handle with its top bit
\* cleared, and leaves the lists of the other threads, the pools, the hash
\* tables and the wheels as they are.
C29_CallbackAppendsBatch ==
  \A t \in Threads : \A h \in Horizon :
    TablesAllocated(fm, t) =>
      LET batch == BatchAt(fm, t, h)
          r == delayprobe_expired_timer_callback(fm, t, batch)
          old == At(fm.expired_passive_per_worker, t).elts
          new == At(r.expired_passive_per_worker, t).elts
      IN /\ Len(new) = Len(old) + Len(batch)
         /\ SubSeq(new, 1, Len(old)) = old
         /\ \A k \in 1 .. Len(batch) :
               /\ new[Len(old) + k] = batch[k] % HandleTopBit
               /\ new[Len(old) + k] < HandleTopBit
         /\ \A u \in Threads \ {t} :
               At(r.expired_passive_per_worker, u)
                 = At(fm.expired_passive_per_worker, u)
         /\ r.pool_per_worker = fm.pool_per_worker
         /\ r.hash_per_worker = fm.hash_per_worker
         /\ r.timers_per_worker = fm.timers_per_worker

\* the wheel of one thread reports a batch of two handles, one of them with
\* the top bit set, while the list of another thread holds a handle
C29_Witness ==
  /\ TablesAllocated(fm, 0) /\ TablesAllocated(fm, NThreads)
  /\ \E h \in Horizon :
        /\ Len(BatchAt(fm, 0, h)) >= 2
        /\ \E k \in 1 .. Len(BatchAt(fm, 0, h)) :
              BatchAt(fm, 0, h)[k] >= HandleTopBit
  /\ At(fm.expired_passive_per_worker, NThreads).elts # <<>>

====
